---- MODULE Spec2Model ----
(***************************************************************************)
(* Model of jni/main.c: the android_main event loop and engine_handle_cmd. *)
(*                                                                         *)
(* One thread runs android_main; pc is its position in the loop.  The host *)
(* (the activity thread and the sensor service) makes commands, input      *)
(* events and sensor samples ready; ALooper_pollAll hands them to the loop *)
(* one source at a time.                                                   *)
(*                                                                         *)
(* init_display, draw_frame, term_display and handle_input are declared in *)
(* main.c (lines 61-64) and implemented outside it; they are modelled by   *)
(* their contract.  The angle is kept in exact hundredths (.01f == 1).     *)
(* ALooper_pollAll is assumed not to fail (no ALOOPER_POLL_ERROR).         *)
(***************************************************************************)
EXTENDS Integers, Sequences, FiniteSets

VARIABLES
    pc,                 \* position of android_main in its loop
    animating,          \* engine.animating (int)
    context,            \* engine.display/surface/context: "null" or "ctx"
    window,             \* app->window != NULL
    accelerometerSensor,\* engine.accelerometerSensor != NULL
    sensorEnabled,      \* the sensor queue reports the accelerometer
    eventRate,          \* last rate given to ASensorEventQueue_setEventRate
    state,              \* engine.state (struct saved_state)
    savedState,         \* app->savedState: NULL or the buffer's three words
    savedStateSize,     \* app->savedStateSize
    destroyRequested,   \* app->destroyRequested
    cmdQ,               \* commands written by the host, not yet read
    inputPending,       \* input events queued, not yet read
    sensorBacklog,      \* samples in the sensor event queue
    frames,             \* animated frames since android_main started
    angle0,             \* engine.state.angle when the loop was entered
    last,               \* the last step of the loop (which command, if one)
    calls,              \* the external calls that step made, in order
    lastWin,            \* "gone" after TERM_WINDOW, "ready" after init ok
    initFailed,         \* an init_display call has failed in this run
    snapshotSaved,      \* engine.state as it was when savedState was written
    run,                \* how many times android_main was started again
    readyAtDestroy      \* sources were still ready when DESTROY was dispatched

vars == <<pc, animating, context, window, accelerometerSensor,
          sensorEnabled, eventRate, state, savedState, savedStateSize,
          destroyRequested, cmdQ, inputPending, sensorBacklog, frames,
          angle0, last, calls, lastWin, initFailed, snapshotSaved, run, readyAtDestroy>>

(* ------------------------------ bounds -------------------------------- *)
MaxCmds == 1
MaxInput == 1
MaxSamples == 2
MaxFrames == 1
MaxFramesWrap == 102
MaxRuns == 1

(* ------------------------- program constants -------------------------- *)
\* .01f in hundredths, and the bound 1 of "angle > 1"
AngleStep == 1
AngleLimit == 100
\* sizeof(struct saved_state): float + 2 * int32_t
SizeofSavedState == 12

\* a null app->savedState: no buffer
NULL == <<>>

Commands == {"SAVE_STATE", "INIT_WINDOW", "TERM_WINDOW", "GAINED_FOCUS",
             "LOST_FOCUS", "DESTROY", "OTHER"}

\* struct saved_state
Snapshot(a, x, y) == [angle |-> a, x |-> x, y |-> y]
ZeroState == Snapshot(0, 0, 0)

\* snapshots a previous run may hand over at startup
SavedAngles == {99}
SavedXY == {<<7, -3>>}
SavedInputs == {Snapshot(a, p[1], p[2]) : a \in SavedAngles, p \in SavedXY}

\* one external call: the function, its argument or result, and the value
\* engine.animating has when the call is made
CallAt(f, v, a) == [fn |-> f, val |-> v, anim |-> a]
Call(f, v) == CallAt(f, v, animating)
CountIn(cs, f) == Cardinality({i \in 1..Len(cs) : cs[i].fn = f})
MadeIn(cs, f) == CountIn(cs, f) > 0
Count(f) == CountIn(calls, f)
Made(f) == MadeIn(calls, f)

(* --------------------- the saved-state buffer ------------------------- *)
\* a copy that lays the fields out in another order than the restore reads
ToBuffer_FieldsSwapped(s) == <<s.angle, s.y, s.x>>

\* *((struct saved_state*)savedState) = engine->state: the buffer holds the
\* fields in declaration order
ToBuffer(s) == <<s.angle, s.x, s.y>>
\* engine.state = *(struct saved_state*)state->savedState
FromBuffer(b) == [angle |-> b[1], x |-> b[2], y |-> b[3]]

(* ------------------ functions implemented outside main.c -------------- *)
\* init_display: 0 and a context on success, nonzero and no change on failure
init_display(ok) == IF ok THEN "ctx" ELSE context
init_status(ok) == IF ok THEN 0 ELSE -1
\* term_display: releases the context and clears the handle
term_display == "null"
\* handle_input: may start the animation
handle_input(start) == IF start THEN 1 ELSE animating

(* ----------------------------- startup -------------------------------- *)
\* the restore at the top of android_main: engine.state stays zeroed by the
\* memset unless state->savedState != NULL
Restore(buf) == IF buf # NULL THEN FromBuffer(buf) ELSE ZeroState

\* android_main up to the loop: memset, sensor lookup, restore.  prev is the
\* snapshot the earlier run saved into buf, if it saved one.
Start(sensor, given, prev) ==
        /\ pc = "poll"
        /\ animating = 0
        /\ context = "null"
        /\ window = FALSE
        /\ accelerometerSensor = sensor
        /\ sensorEnabled = FALSE
        /\ eventRate = 0
        /\ savedState = IF given THEN ToBuffer(prev) ELSE NULL
        /\ savedStateSize = IF given THEN SizeofSavedState ELSE 0
        /\ snapshotSaved = IF given THEN prev ELSE ZeroState
        /\ state = Restore(savedState)
        /\ destroyRequested = 0
        /\ cmdQ = <<>>
        /\ inputPending = 0
        /\ sensorBacklog = 0
        /\ frames = 0
        /\ angle0 = state.angle
        /\ last = "START"
        /\ calls = <<>>
        /\ lastWin = "none"
        /\ initFailed = FALSE
        /\ run = 0
        /\ readyAtDestroy = FALSE

Init ==
    \E sensor \in BOOLEAN, given \in BOOLEAN, prev \in SavedInputs :
        Start(sensor, given, prev)

engineVars == <<animating, context, sensorEnabled, eventRate, state,
                savedState, savedStateSize>>
hostVars == <<cmdQ, inputPending, sensorBacklog>>

\* 1 when a rendering context exists at the time of a draw_frame call
HasContext(c) == IF c = "null" THEN 0 ELSE 1

(* --------------------------- engine_handle_cmd ------------------------ *)
\* a SAVE_STATE case without its break, falling into INIT_WINDOW
SaveState_FallThrough ==
    /\ savedState' = ToBuffer(state)
    /\ savedStateSize' = SizeofSavedState
    /\ snapshotSaved' = state
    /\ context' = init_display(TRUE)
    /\ calls' = <<Call("init_display", init_status(TRUE)),
                  Call("draw_frame", HasContext(context'))>>
    /\ lastWin' = "ready"
    /\ UNCHANGED <<animating, sensorEnabled, eventRate, state, initFailed>>

\* case APP_CMD_SAVE_STATE
SaveState ==
    /\ savedState' = ToBuffer(state)
    /\ savedStateSize' = SizeofSavedState
    /\ snapshotSaved' = state
    /\ calls' = <<>>
    /\ UNCHANGED <<animating, context, sensorEnabled, eventRate, state, lastWin, initFailed>>

\* INIT_WINDOW without the "app->window != NULL" test
InitWindow_NoWindowCheck(win) ==
    /\ \E ok \in BOOLEAN :
         /\ context' = init_display(ok)
         /\ calls' = <<Call("init_display", init_status(ok)),
                       Call("draw_frame", HasContext(context'))>>
         /\ lastWin' = IF ok THEN "ready" ELSE lastWin
         /\ initFailed' = (initFailed \/ ~ok)
    /\ UNCHANGED <<animating, sensorEnabled, eventRate, state, savedState,
                   savedStateSize, snapshotSaved>>

\* case APP_CMD_INIT_WINDOW; win: engine->app->window != NULL
InitWindow(win) ==
    /\ IF win
       THEN \E ok \in BOOLEAN :
              /\ context' = init_display(ok)
              /\ calls' = <<Call("init_display", init_status(ok)),
                            Call("draw_frame", HasContext(context'))>>
              /\ lastWin' = IF ok THEN "ready" ELSE lastWin
              /\ initFailed' = (initFailed \/ ~ok)
       ELSE /\ calls' = <<>>
            /\ UNCHANGED <<context, lastWin, initFailed>>
    /\ UNCHANGED <<animating, sensorEnabled, eventRate, state, savedState,
                   savedStateSize, snapshotSaved>>

\* case APP_CMD_TERM_WINDOW
TermWindow ==
    /\ context' = term_display
    /\ calls' = <<Call("term_display", 0)>>
    /\ lastWin' = "gone"
    /\ UNCHANGED <<animating, sensorEnabled, eventRate, state, savedState,
                   savedStateSize, initFailed, snapshotSaved>>

\* (1000L/60)*1000 in C's integer arithmetic
EventRate == (1000 \div 60) * 1000

\* enabling the sensor without the NULL check of the descriptor
GainedFocus_NoNullCheck ==
    /\ sensorEnabled' = TRUE
    /\ eventRate' = EventRate
    /\ calls' = <<Call("ASensorEventQueue_enableSensor", 0),
                  Call("ASensorEventQueue_setEventRate", EventRate)>>
    /\ UNCHANGED <<animating, context, state, savedState, savedStateSize,
                   lastWin, initFailed, snapshotSaved>>

\* case APP_CMD_GAINED_FOCUS
GainedFocus ==
    /\ IF accelerometerSensor
       THEN /\ sensorEnabled' = TRUE
            /\ eventRate' = EventRate
            /\ calls' = <<Call("ASensorEventQueue_enableSensor", 0),
                          Call("ASensorEventQueue_setEventRate", EventRate)>>
       ELSE /\ calls' = <<>>
            /\ UNCHANGED <<sensorEnabled, eventRate>>
    /\ UNCHANGED <<animating, context, state, savedState, savedStateSize,
                   lastWin, initFailed, snapshotSaved>>

\* losing focus without "engine->animating = 0"
LostFocus_KeepAnimating ==
    /\ sensorEnabled' = IF accelerometerSensor THEN FALSE ELSE sensorEnabled
    /\ calls' = (IF accelerometerSensor
                 THEN <<Call("ASensorEventQueue_disableSensor", 0)>>
                 ELSE <<>>) \o <<Call("draw_frame", HasContext(context))>>
    /\ UNCHANGED <<animating, context, eventRate, state, savedState,
                   savedStateSize, lastWin, initFailed, snapshotSaved>>

\* losing focus without disabling the sensor
LostFocus_KeepSensor ==
    /\ animating' = 0
    /\ calls' = <<CallAt("draw_frame", HasContext(context), animating')>>
    /\ UNCHANGED <<sensorEnabled, context, eventRate, state, savedState,
                   savedStateSize, lastWin, initFailed, snapshotSaved>>

\* losing focus with the last frame drawn before animating is cleared
LostFocus_DrawFirst ==
    /\ sensorEnabled' = IF accelerometerSensor THEN FALSE ELSE sensorEnabled
    /\ animating' = 0
    /\ calls' = (IF accelerometerSensor
                 THEN <<Call("ASensorEventQueue_disableSensor", 0)>>
                 ELSE <<>>) \o <<Call("draw_frame", HasContext(context))>>
    /\ UNCHANGED <<context, eventRate, state, savedState, savedStateSize,
                   lastWin, initFailed, snapshotSaved>>

\* case APP_CMD_LOST_FOCUS
LostFocus ==
    /\ sensorEnabled' = IF accelerometerSensor THEN FALSE ELSE sensorEnabled
    /\ animating' = 0
    /\ calls' = (IF accelerometerSensor
                 THEN <<Call("ASensorEventQueue_disableSensor", 0)>>
                 ELSE <<>>) \o
                <<CallAt("draw_frame", HasContext(context), animating')>>
    /\ UNCHANGED <<context, eventRate, state, savedState, savedStateSize,
                   lastWin, initFailed, snapshotSaved>>

\* no case of the switch: APP_CMD_DESTROY and every other command
NoCase ==
    /\ calls' = <<>>
    /\ UNCHANGED <<engineVars, lastWin, initFailed, snapshotSaved>>

engine_handle_cmd(cmd, win) ==
    CASE cmd = "SAVE_STATE"   -> SaveState
      [] cmd = "INIT_WINDOW"  -> InitWindow(win)
      [] cmd = "TERM_WINDOW"  -> TermWindow
      [] cmd = "GAINED_FOCUS" -> GainedFocus
      [] cmd = "LOST_FOCUS"   -> LostFocus
      [] OTHER                -> NoCase

(* ------------------------------ the host ------------------------------ *)
\* the activity thread writes a command to the pipe
HostCmdOf(cmds) ==
    /\ pc # "done"
    /\ Len(cmdQ) < MaxCmds
    /\ \E c \in cmds : cmdQ' = Append(cmdQ, c)
    /\ UNCHANGED <<pc, engineVars, window, accelerometerSensor,
                   destroyRequested, inputPending, sensorBacklog, frames,
                   angle0, last, calls, lastWin, initFailed, snapshotSaved, run, readyAtDestroy>>

HostCmd == HostCmdOf(Commands)

\* an input event arrives on the input queue
HostInput ==
    /\ pc # "done"
    /\ inputPending < MaxInput
    /\ inputPending' = inputPending + 1
    /\ UNCHANGED <<pc, engineVars, window, accelerometerSensor,
                   destroyRequested, cmdQ, sensorBacklog, frames,
                   angle0, last, calls, lastWin, initFailed, snapshotSaved, run, readyAtDestroy>>

\* the enabled sensor delivers a sample to the sensor event queue
HostSample ==
    /\ pc # "done"
    /\ sensorEnabled
    /\ sensorBacklog < MaxSamples
    /\ sensorBacklog' = sensorBacklog + 1
    /\ UNCHANGED <<pc, engineVars, window, accelerometerSensor,
                   destroyRequested, cmdQ, inputPending, frames,
                   angle0, last, calls, lastWin, initFailed, snapshotSaved, run, readyAtDestroy>>

(* --------------------------- android_main loop ------------------------ *)
Ready(src) ==
    CASE src = "main"  -> cmdQ # <<>>
      [] src = "input" -> inputPending > 0
      [] src = "user"  -> sensorBacklog > 0

NoneReady == \A src \in {"main", "input", "user"} : ~Ready(src)

\* a dispatch of APP_CMD_DESTROY that leaves destroyRequested unset
DispatchCmd_DestroyUnseen ==
    /\ pc = "poll"
    /\ Ready("main")
    /\ LET cmd == Head(cmdQ) IN
         /\ cmdQ' = Tail(cmdQ)
         /\ destroyRequested' = destroyRequested
         /\ window' \in (CASE cmd = "INIT_WINDOW" -> BOOLEAN
                           [] cmd = "TERM_WINDOW" -> {FALSE}
                           [] OTHER -> {window})
         /\ engine_handle_cmd(cmd, window')
         /\ last' = cmd
         /\ readyAtDestroy' = (cmd = "DESTROY" /\
                (cmdQ' # <<>> \/ inputPending > 0 \/ sensorBacklog > 0))
    /\ pc' = "check"
    /\ UNCHANGED <<accelerometerSensor, inputPending, sensorBacklog,
                   frames, angle0, run>>

\* ALooper_pollAll returns LOOPER_ID_MAIN and source->process runs: the
\* glue reads the command, sets app->window (to the pending window, which
\* may be none, before INIT_WINDOW; to NULL for TERM_WINDOW) and
\* app->destroyRequested, and calls onAppCmd
DispatchCmd ==
    /\ pc = "poll"
    /\ Ready("main")
    /\ LET cmd == Head(cmdQ) IN
         /\ cmdQ' = Tail(cmdQ)
         /\ destroyRequested' = IF cmd = "DESTROY" THEN 1 ELSE destroyRequested
         /\ window' \in (CASE cmd = "INIT_WINDOW" -> BOOLEAN
                           [] cmd = "TERM_WINDOW" -> {FALSE}
                           [] OTHER -> {window})
         /\ engine_handle_cmd(cmd, window')
         /\ last' = cmd
         /\ readyAtDestroy' = (cmd = "DESTROY" /\
                (cmdQ' # <<>> \/ inputPending > 0 \/ sensorBacklog > 0))
    /\ pc' = "check"
    /\ UNCHANGED <<accelerometerSensor, inputPending, sensorBacklog,
                   frames, angle0, run>>

\* ALooper_pollAll returns LOOPER_ID_INPUT and source->process runs: the
\* glue calls onInputEvent
DispatchInput ==
    /\ pc = "poll"
    /\ Ready("input")
    /\ inputPending' = inputPending - 1
    /\ \E start \in BOOLEAN : animating' = handle_input(start)
    /\ calls' = <<Call("handle_input", 0)>>
    /\ last' = "INPUT"
    /\ pc' = "check"
    /\ UNCHANGED <<context, sensorEnabled, eventRate, state, savedState,
                   savedStateSize, window, accelerometerSensor,
                   destroyRequested, cmdQ, sensorBacklog, frames, angle0,
                   lastWin, initFailed, snapshotSaved, run, readyAtDestroy>>

\* ALooper_pollAll returns LOOPER_ID_USER; it was registered with no data,
\* so source is NULL and nothing is processed before the drain
SensorReady ==
    /\ pc = "poll"
    /\ Ready("user")
    /\ pc' = "sensor"
    /\ last' = "POLL"
    /\ calls' = <<>>
    /\ UNCHANGED <<engineVars, hostVars, window, accelerometerSensor,
                   destroyRequested, frames, angle0, lastWin, initFailed, snapshotSaved,
                   run, readyAtDestroy>>

\* a poll that gives up while sources are still ready
PollTimeout_Early ==
    /\ pc = "poll"
    /\ animating # 0
    /\ frames < MaxFrames
    /\ pc' = "animate"
    /\ last' = "TIMEOUT"
    /\ calls' = <<>>
    /\ UNCHANGED <<engineVars, hostVars, window, accelerometerSensor,
                   destroyRequested, frames, angle0, lastWin, initFailed, snapshotSaved,
                   run, readyAtDestroy>>

\* a poll that never blocks: timeout 0 whether animating or not
PollTimeoutWithin_NeverBlocks(limit) ==
    /\ pc = "poll"
    /\ NoneReady
    /\ frames < limit
    /\ pc' = "animate"
    /\ last' = "TIMEOUT"
    /\ calls' = <<>>
    /\ UNCHANGED <<engineVars, hostVars, window, accelerometerSensor,
                   destroyRequested, frames, angle0, lastWin, initFailed, snapshotSaved,
                   run, readyAtDestroy>>

\* ALooper_pollAll(0) finds nothing ready: the inner loop ends.  With
\* timeout -1 (animating == 0) the call blocks instead.  The model follows
\* the loop for limit animated frames; then it only waits for events.
PollTimeoutWithin(limit) ==
    /\ pc = "poll"
    /\ animating # 0
    /\ NoneReady
    /\ frames < limit
    /\ pc' = "animate"
    /\ last' = "TIMEOUT"
    /\ calls' = <<>>
    /\ UNCHANGED <<engineVars, hostVars, window, accelerometerSensor,
                   destroyRequested, frames, angle0, lastWin, initFailed, snapshotSaved,
                   run, readyAtDestroy>>

\* a drain that fetches a single sample and moves on (if for while)
DrainOne_Once ==
    /\ pc = "sensor"
    /\ accelerometerSensor
    /\ sensorBacklog > 0
    /\ sensorBacklog' = sensorBacklog - 1
    /\ calls' = <<Call("ASensorEventQueue_getEvents", 1)>>
    /\ last' = "SENSOR"
    /\ pc' = "check"
    /\ UNCHANGED <<engineVars, window, accelerometerSensor,
                   destroyRequested, cmdQ, inputPending, frames, angle0,
                   lastWin, initFailed, snapshotSaved, run, readyAtDestroy>>

\* ASensorEventQueue_getEvents(queue, &event, 1) > 0: one sample fetched
DrainOne ==
    /\ pc = "sensor"
    /\ accelerometerSensor
    /\ sensorBacklog > 0
    /\ sensorBacklog' = sensorBacklog - 1
    /\ calls' = <<Call("ASensorEventQueue_getEvents", 1)>>
    /\ last' = "SENSOR"
    /\ UNCHANGED <<pc, engineVars, window, accelerometerSensor,
                   destroyRequested, cmdQ, inputPending, frames, angle0,
                   lastWin, initFailed, snapshotSaved, run, readyAtDestroy>>

\* the queue reports empty (or there is no sensor): the drain ends
DrainEnd ==
    /\ pc = "sensor"
    /\ ~(accelerometerSensor /\ sensorBacklog > 0)
    /\ calls' = IF accelerometerSensor
                THEN <<Call("ASensorEventQueue_getEvents", 0)>>
                ELSE <<>>
    /\ last' = "SENSOR"
    /\ pc' = "check"
    /\ UNCHANGED <<engineVars, hostVars, window, accelerometerSensor,
                   destroyRequested, frames, angle0, lastWin, initFailed, snapshotSaved,
                   run, readyAtDestroy>>

\* an exit that terminates the display only when there is a context
CheckDestroy_SkipTermWhenNull ==
    /\ pc = "check"
    /\ IF destroyRequested # 0
       THEN /\ context' = term_display
            /\ calls' = IF context = "null" THEN <<>>
                        ELSE <<Call("term_display", 0)>>
            /\ last' = "EXIT"
            /\ pc' = "done"
       ELSE /\ calls' = <<>>
            /\ last' = "CHECK"
            /\ pc' = "poll"
            /\ UNCHANGED context
    /\ UNCHANGED <<animating, sensorEnabled, eventRate, state,
                   savedState, savedStateSize, hostVars,
                   window, accelerometerSensor, destroyRequested, frames, angle0,
                   lastWin, initFailed, snapshotSaved, run, readyAtDestroy>>

\* a destroy check that is made only once no source is ready any more
CheckDestroy_AfterAllReady ==
    /\ pc = "check"
    /\ IF destroyRequested # 0 /\ NoneReady
       THEN /\ context' = term_display
            /\ calls' = <<Call("term_display", 0)>>
            /\ last' = "EXIT"
            /\ pc' = "done"
       ELSE /\ calls' = <<>>
            /\ last' = "CHECK"
            /\ pc' = "poll"
            /\ UNCHANGED context
    /\ UNCHANGED <<animating, sensorEnabled, eventRate, state,
                   savedState, savedStateSize, hostVars,
                   window, accelerometerSensor, destroyRequested, frames, angle0,
                   lastWin, initFailed, snapshotSaved, run, readyAtDestroy>>

\* if (state->destroyRequested != 0) { term_display(&engine); return; }
CheckDestroy ==
    /\ pc = "check"
    /\ IF destroyRequested # 0
       THEN /\ context' = term_display
            /\ calls' = <<Call("term_display", 0)>>
            /\ last' = "EXIT"
            /\ pc' = "done"
       ELSE /\ calls' = <<>>
            /\ last' = "CHECK"
            /\ pc' = "poll"
            /\ UNCHANGED context
    /\ UNCHANGED <<animating, sensorEnabled, eventRate, state,
                   savedState, savedStateSize, hostVars,
                   window, accelerometerSensor, destroyRequested, frames, angle0,
                   lastWin, initFailed, snapshotSaved, run, readyAtDestroy>>

\* a wrap that resets the angle as soon as it reaches 1 (>= for >)
NextAngle_WrapAtOne(a) == IF a + AngleStep >= AngleLimit THEN 0 ELSE a + AngleStep

\* engine.state.angle += .01f; if (engine.state.angle > 1) angle = 0
NextAngle(a) == IF a + AngleStep > AngleLimit THEN 0 ELSE a + AngleStep

\* if (engine.animating) { advance the angle; draw_frame(&engine); }
Animate ==
    /\ pc = "animate"
    /\ IF animating # 0
       THEN /\ state' = [state EXCEPT !.angle = NextAngle(@)]
            /\ calls' = <<Call("draw_frame", HasContext(context))>>
            /\ frames' = frames + 1
            /\ last' = "FRAME"
       ELSE /\ calls' = <<>>
            /\ last' = "NOFRAME"
            /\ UNCHANGED <<state, frames>>
    /\ pc' = "poll"
    /\ UNCHANGED <<animating, context, sensorEnabled, eventRate,
                   savedState, savedStateSize, hostVars,
                   window, accelerometerSensor, destroyRequested, angle0, lastWin, initFailed,
                   snapshotSaved, run, readyAtDestroy>>

PollTimeout == PollTimeoutWithin(MaxFrames)

Host == HostCmd \/ HostInput \/ HostSample

Loop ==
    \/ DispatchCmd
    \/ DispatchInput
    \/ SensorReady
    \/ PollTimeout
    \/ DrainOne
    \/ DrainEnd
    \/ CheckDestroy
    \/ Animate

Next == Host \/ Loop

Spec == Init /\ [][Next]_vars

(* ------------------- a second run of android_main --------------------- *)
\* After android_main has returned the host may start it again, handing
\* over the buffer the earlier run saved (given) or none.
Restart ==
    /\ pc = "done"
    /\ run < MaxRuns
    /\ run' = run + 1
    /\ \E given \in BOOLEAN :
         /\ savedState' = IF given THEN savedState ELSE NULL
         /\ savedStateSize' = IF given THEN savedStateSize ELSE 0
         /\ snapshotSaved' = IF given /\ savedState # NULL
                             THEN snapshotSaved ELSE ZeroState
    /\ state' = Restore(savedState')
    /\ angle0' = state'.angle
    /\ pc' = "poll"
    /\ animating' = 0
    /\ context' = "null"
    /\ window' = FALSE
    /\ sensorEnabled' = FALSE
    /\ eventRate' = 0
    /\ destroyRequested' = 0
    /\ cmdQ' = <<>>
    /\ inputPending' = 0
    /\ sensorBacklog' = 0
    /\ frames' = 0
    /\ last' = "START"
    /\ calls' = <<>>
    /\ lastWin' = "none"
    /\ initFailed' = FALSE
    /\ readyAtDestroy' = FALSE
    /\ UNCHANGED accelerometerSensor

\* The runs of the loop that matter to the snapshot: the commands that read
\* or write engine.state, savedState or animating, input events and
\* animated frames, then the return and the next start.  Sensor samples and
\* the window and sensor commands are left out: they touch neither
\* engine.state nor savedState.
SnapshotCommands == {"SAVE_STATE", "LOST_FOCUS", "DESTROY", "OTHER"}

HostSnapshotCmd == HostCmdOf(SnapshotCommands)

NextRestart ==
    \/ HostSnapshotCmd
    \/ HostInput
    \/ DispatchCmd
    \/ DispatchInput
    \/ PollTimeout
    \/ CheckDestroy
    \/ Animate
    \/ Restart

SpecRestart == Init /\ [][NextRestart]_vars

(* ------------------- a long run of animated frames -------------------- *)
\* The loop started from each saved angle in [0,1), with input events (which
\* start the animation) as the only events, for up to MaxFramesWrap frames.
InitAngle ==
    \E a \in 0..(AngleLimit - 1) : Start(FALSE, TRUE, Snapshot(a, 0, 0))

PollTimeoutRun == PollTimeoutWithin(MaxFramesWrap)

NextAngleRun ==
    \/ HostInput
    \/ DispatchInput
    \/ CheckDestroy
    \/ PollTimeoutRun
    \/ Animate

SpecAngle == InitAngle /\ [][NextAngleRun]_vars

(* ------------------- the loop under fair scheduling ------------------- *)
\* The commands that decide whether the loop is animating, blocked in the
\* poll or draining the sensor when the destroy request arrives.
LiveCommands == {"GAINED_FOCUS", "LOST_FOCUS", "DESTROY"}

HostLiveCmd == HostCmdOf(LiveCommands)

NextLive == HostLiveCmd \/ HostInput \/ HostSample \/ Loop

\* a fetch of the drain that finds k samples in the queue
DrainAt(k) == DrainOne /\ sensorBacklog = k

\* The native thread keeps running (WF on the loop's steps); the looper
\* does not starve the command pipe while it stays ready (SF on its
\* dispatch); the sensor delivers at a bounded rate (main.c:95-96) while
\* a fetch takes far less than a sample period, so the drain gains on the
\* queue at every backlog (SF on the fetch at each backlog) and finds it
\* empty at some point (SF on the end of the drain).
Fairness ==
    /\ WF_vars(Loop)
    /\ SF_vars(DispatchCmd)
    /\ \A k \in 1..MaxSamples : SF_vars(DrainAt(k))
    /\ SF_vars(DrainEnd)

SpecLive == Init /\ [][NextLive]_vars /\ Fairness


(* ======================= the claims, C1 .. C10 ======================== *)

\* the steps of the loop that dispatch a command or an input event
Dispatches == Commands \cup {"INPUT"}

\* C1: after WindowGone the rendering-context handle is null, and no
\* draw_frame call is made (by FocusLost, by a failed WindowReady or by the
\* animation step) until a WindowReady whose init_display succeeds.
C1_NoDrawAfterWindowGone ==
    lastWin = "gone" => (context = "null" /\ ~Made("draw_frame"))

\* C2: destroy law.  When the check finds destroyRequested set, the loop's
\* step is exactly one term_display call (whether or not a context exists)
\* and the return: no event is dispatched, no sample drained, no frame drawn
\* and the angle is not advanced; after the return no step follows.
C2_DestroyLaw ==
    /\ [][(pc = "check" /\ destroyRequested # 0 /\ pc' # pc) =>
            /\ pc' = "done"
            /\ calls' = <<Call("term_display", 0)>>
            /\ context' = "null"
            /\ UNCHANGED <<state, frames, hostVars, animating>>]_vars
    /\ [](pc = "done" => (last = "EXIT" /\ Count("term_display") = 1
                           /\ Len(calls) = 1))
    /\ [][pc # "done"]_vars

\* C2 witness: the loop has returned through one term_display call although
\* no context was ever created
C2_Witness ==
    pc = "done" /\ lastWin = "none" /\ calls = <<Call("term_display", 0)>>

\* C3: immediately after engine_handle_cmd has processed LOST_FOCUS,
\* animating is 0.
C3_FocusLostStopsAnimating ==
    last = "LOST_FOCUS" => animating = 0

\* C3 witness: LOST_FOCUS processed after frames were animated, with a
\* context and with a sensor
C3_Witness ==
    /\ last = "LOST_FOCUS"
    /\ frames > 0
    /\ context = "ctx"
    /\ accelerometerSensor
    /\ animating = 0

\* C4: GAINED_FOCUS enables the sensor exactly when a sensor descriptor was
\* obtained at startup; without one it makes no call and changes nothing of
\* the engine, and the loop goes on to the destroy check.
C4_FocusGainedSensor ==
    [][(pc = "poll" /\ pc' = "check" /\ last' = "GAINED_FOCUS") =>
         /\ MadeIn(calls', "ASensorEventQueue_enableSensor") <=> accelerometerSensor
         /\ sensorEnabled' <=> accelerometerSensor
         /\ ~accelerometerSensor =>
              (calls' = <<>> /\ UNCHANGED <<engineVars, destroyRequested>>)]_vars

\* C4 witness: GAINED_FOCUS processed on a device without the sensor
C4_Witness ==
    /\ last = "GAINED_FOCUS"
    /\ ~accelerometerSensor
    /\ ~sensorEnabled
    /\ calls = <<>>

\* C5: the rate given to ASensorEventQueue_setEventRate is 16667
\* microseconds.
C5_EventRateIs16667 ==
    \A i \in 1..Len(calls) :
        calls[i].fn = "ASensorEventQueue_setEventRate" => calls[i].val = 16667

\* C6 as stated: after n animated frames from an angle in [0,1) the angle
\* is (initial + 0.01 * n) mod 1; from 0 it is 0 again after 100 frames.
C6_WrapLawModOne ==
    state.angle = (angle0 + AngleStep * frames) % AngleLimit

\* C6 amended: the angle wraps to 0 only when it exceeds 1, so it takes
\* the values 0 .. 1 inclusive and after n animated frames it is
\* (initial + 0.01 * n) mod 1.01.
C6_WrapLaw ==
    state.angle = (angle0 + AngleStep * frames) % (AngleLimit + AngleStep)

\* C6 witness: from 0 the angle is 0 again after 101 frames
C6_Witness ==
    angle0 = 0 /\ frames = AngleLimit + 1 /\ state.angle = 0 /\ last = "FRAME"

\* C7: a fresh engine started with the buffer SAVE_STATE wrote holds the
\* snapshot that was saved, field for field; started with no buffer it
\* holds zeros.
C7_SnapshotRoundTrip ==
    last = "START" =>
        state = (IF savedState = NULL THEN ZeroState ELSE snapshotSaved)

\* C7 witness: the second run starts from a snapshot the first run saved
\* after animating
C7_Witness ==
    /\ run = 1
    /\ last = "START"
    /\ savedState # NULL
    /\ state = Snapshot(AngleLimit, 7, -3)

\* C8: WindowReady with a window issues exactly one draw_frame call when
\* init_display returns 0 and none when it fails.
C8_DrawOnlyOnInitSuccess ==
    (last = "INIT_WINDOW" /\ Made("init_display")) =>
        Count("draw_frame") = (IF calls[1].val = 0 THEN 1 ELSE 0)

\* C9: animating is nonzero only while a window is ready, that is between
\* a successful init_display and the next term_display.
C9_AnimatingOnlyWithWindow ==
    animating # 0 => (lastWin = "ready" /\ context # "null")

\* C10: the loop enters the animation step only from a poll that found no
\* source ready, every dispatch and every drain is followed by the destroy
\* check, and a frame is animated only while destroyRequested is 0.
C10_DrainBeforeDraw ==
    /\ [][(pc' = "animate" /\ pc # "animate") =>
            (pc = "poll" /\ NoneReady /\ destroyRequested = 0)]_vars
    /\ [][(pc' # pc /\ (last' \in Dispatches \/ pc = "sensor")) =>
            pc' = "check"]_vars
    /\ [][(pc = "check" /\ pc' # pc /\ destroyRequested # 0) =>
            pc' = "done"]_vars
    /\ []((pc = "animate" \/ last = "FRAME") => destroyRequested = 0)

\* C10 witness: the first animated frame, drawn in the cycle whose events
\* started the animation
C10_Witness ==
    /\ last = "FRAME"
    /\ frames = 1
    /\ Made("draw_frame")
    /\ destroyRequested = 0

(* ======================= the claims, C11 .. C20 ======================= *)

\* C11 as stated: the events that were ready when the event setting
\* destroyRequested was dispatched have all been dispatched when the loop
\* has terminated the context and returned.
C11_AllReadyDispatchedBeforeExit ==
    (pc = "done" /\ readyAtDestroy) => NoneReady

\* C11 amended: the destroy check is made after each dispatched event, so
\* the dispatch that sets destroyRequested is followed at once by the exit;
\* the events that were ready with it are left undispatched.
C11_ExitRightAfterDestroy ==
    /\ [][(destroyRequested = 0 /\ destroyRequested' # 0) =>
            (last' = "DESTROY" /\ pc' = "check")]_vars
    /\ [][(pc = "check" /\ destroyRequested # 0 /\ pc' # pc) =>
            (pc' = "done" /\ UNCHANGED hostVars)]_vars
    /\ []((pc = "done" /\ readyAtDestroy) => ~NoneReady)

\* C11 witness: the loop has returned while an input event, ready when
\* DESTROY was dispatched, is still queued
C11_Witness ==
    pc = "done" /\ readyAtDestroy /\ inputPending > 0 /\ last = "EXIT"

\* C12: the animation step calls draw_frame only while a rendering context
\* exists; with animating nonzero and no context the frame is skipped.
C12_FrameDrawsOnlyWithContext ==
    (last = "FRAME" /\ Made("draw_frame")) => context # "null"

\* C13: init_display is invoked only while no rendering context is active,
\* so two successful calls are always separated by a term_display call.
C13_InitOnlyWithoutContext ==
    [][(pc = "poll" /\ pc' = "check" /\ last' = "INIT_WINDOW"
          /\ MadeIn(calls', "init_display")) => context = "null"]_vars

\* C14: LOST_FOCUS issues exactly one draw_frame call, made after animating
\* was cleared and after the sensor was disabled; the sensor is disabled
\* exactly when a sensor descriptor is present; the snapshot and the
\* rendering context are left as they were.
C14_FocusLostEffects ==
    [][(pc = "poll" /\ pc' = "check" /\ last' = "LOST_FOCUS") =>
         /\ CountIn(calls', "draw_frame") = 1
         /\ calls'[Len(calls')] = CallAt("draw_frame", HasContext(context), 0)
         /\ MadeIn(calls', "ASensorEventQueue_disableSensor") <=> accelerometerSensor
         /\ Len(calls') = (IF accelerometerSensor THEN 2 ELSE 1)
         /\ ~sensorEnabled'
         /\ UNCHANGED <<state, context, savedState>>]_vars

\* C14 witness: LOST_FOCUS processed while animating, with a sensor: the
\* sensor was disabled with animating still 1, the frame drawn with it 0
C14_Witness ==
    /\ last = "LOST_FOCUS"
    /\ accelerometerSensor
    /\ calls = <<CallAt("ASensorEventQueue_disableSensor", 0, 1),
                 CallAt("draw_frame", 1, 0)>>

\* C15: SAVE_STATE writes a complete copy of the snapshot into the buffer
\* and records the snapshot's size; it makes no external call and leaves
\* the context, the sensor, animating and the snapshot as they were.  A
\* command that is none of the five cases changes nothing of the engine.
C15_SaveStateFrame ==
    /\ [][(pc = "poll" /\ pc' = "check" /\ last' = "SAVE_STATE") =>
            /\ Len(savedState') * 4 = SizeofSavedState
            /\ FromBuffer(savedState') = state
            /\ savedStateSize' = SizeofSavedState
            /\ calls' = <<>>
            /\ UNCHANGED <<state, animating, context, window, sensorEnabled,
                           eventRate, lastWin, destroyRequested>>]_vars
    /\ [][(pc = "poll" /\ pc' = "check" /\ last' \in {"OTHER", "DESTROY"}) =>
            /\ calls' = <<>>
            /\ UNCHANGED <<engineVars, window, lastWin>>]_vars
    /\ [][(pc = "poll" /\ pc' = "check" /\ last' = "OTHER") =>
            UNCHANGED destroyRequested]_vars

\* C15 witness: SAVE_STATE processed in the middle of an animation, with a
\* context and an enabled sensor
C15_Witness ==
    /\ last = "SAVE_STATE"
    /\ savedState = <<AngleLimit, 7, -3>>
    /\ savedStateSize = SizeofSavedState
    /\ state.angle = AngleLimit
    /\ animating = 1
    /\ context = "ctx"
    /\ sensorEnabled
    /\ calls = <<>>

\* a step of the loop that dispatches the focus command cmd
FocusStep(cmd) == pc = "poll" /\ pc' = "check" /\ last' = cmd

\* C16: with a sensor descriptor, sensor reporting is enabled exactly while
\* the last focus command processed is GAINED_FOCUS: it is off at startup,
\* GAINED_FOCUS turns it on, LOST_FOCUS turns it off, and no other step
\* changes it.
C16_SensorGating ==
    /\ [](last = "START" => ~sensorEnabled)
    /\ [][(FocusStep("GAINED_FOCUS") /\ accelerometerSensor) => sensorEnabled']_vars
    /\ [][FocusStep("LOST_FOCUS") => ~sensorEnabled']_vars
    /\ [][~(FocusStep("GAINED_FOCUS") \/ FocusStep("LOST_FOCUS")) =>
            UNCHANGED sensorEnabled]_vars

\* C16 witness: the sensor is off again after focus was gained and lost
C16_Witness ==
    /\ last = "LOST_FOCUS"
    /\ accelerometerSensor
    /\ eventRate = EventRate
    /\ ~sensorEnabled
    /\ Made("ASensorEventQueue_disableSensor")

\* C17: the poll returns without an event only while animating is nonzero
\* and blocks while it is 0 and nothing is ready; the snapshot changes only
\* in the animation step, which is taken with animating nonzero and then
\* advances the angle by one increment and calls draw_frame once;
\* GAINED_FOCUS leaves animating as it was.
C17_PollPolicy ==
    /\ [][(pc' = "animate" /\ pc # "animate") =>
            (pc = "poll" /\ animating # 0 /\ NoneReady)]_vars
    /\ []((pc = "poll" /\ animating = 0 /\ NoneReady) => ~ENABLED Loop)
    /\ []((pc = "poll" /\ animating # 0 /\ frames < MaxFrames) => ENABLED Loop)
    /\ [][(state' # state) => (pc = "animate" /\ animating # 0)]_vars
    /\ [][(pc = "animate" /\ pc' # pc) =>
            /\ animating # 0
            /\ state' = [state EXCEPT !.angle = NextAngle(state.angle)]
            /\ state'.angle # state.angle
            /\ calls' = <<Call("draw_frame", HasContext(context))>>
            /\ frames' = frames + 1]_vars
    /\ [][FocusStep("GAINED_FOCUS") => UNCHANGED animating]_vars

\* C17 witness: one animated frame, with the angle advanced by one
\* increment and one draw_frame call
C17_Witness ==
    /\ last = "FRAME"
    /\ animating # 0
    /\ state.angle = NextAngle(angle0)
    /\ Count("draw_frame") = 1
    /\ Len(calls) = 1

\* C18: the drain is entered when the poll reports the sensor queue ready;
\* in it every step of the loop either fetches exactly one sample or finds
\* the queue empty, one of the two is always possible, and the drain is
\* left only on an empty report, with the queue empty (so a backlog of n
\* is gone after n fetches); no step taken during the drain changes the
\* snapshot, the animating flag or the rendering context.
C18_SensorDrain ==
    /\ [][(pc # "sensor" /\ pc' = "sensor") =>
            (pc = "poll" /\ Ready("user") /\ accelerometerSensor)]_vars
    /\ [](pc = "sensor" => ENABLED (DrainOne \/ DrainEnd))
    /\ [][(/\ pc = "sensor" /\ pc' = "sensor"
            /\ (sensorBacklog' < sensorBacklog \/ <<last, calls>>' # <<last, calls>>)) =>
            /\ sensorBacklog' = sensorBacklog - 1
            /\ last' = "SENSOR"
            /\ calls' = <<Call("ASensorEventQueue_getEvents", 1)>>]_vars
    /\ [][(pc = "sensor" /\ pc' # "sensor") =>
            /\ pc' = "check"
            /\ sensorBacklog = 0
            /\ sensorBacklog' = 0
            /\ calls' = <<Call("ASensorEventQueue_getEvents", 0)>>]_vars
    /\ [][pc = "sensor" => UNCHANGED <<state, animating, context>>]_vars

\* C18 witness: a drain has just ended on an empty report
C18_Witness ==
    /\ pc = "check"
    /\ last = "SENSOR"
    /\ sensorBacklog = 0
    /\ Len(calls) = 1
    /\ calls[1].fn = "ASensorEventQueue_getEvents"
    /\ calls[1].val = 0

\* C19: init_display is called only in the dispatch of INIT_WINDOW with
\* app->window set, once per such dispatch whatever the earlier calls
\* returned (so also after a failure), and by no other step of the loop;
\* a failing call leaves destroyRequested and animating alone and the loop
\* goes on to its destroy check and from there back to the poll.
C19_InitFailureNonFatal ==
    /\ [](Made("init_display") => (last = "INIT_WINDOW" /\ window))
    /\ [][FocusStep("INIT_WINDOW") =>
            CountIn(calls', "init_display") = (IF window' THEN 1 ELSE 0)]_vars
    /\ [][(~FocusStep("INIT_WINDOW") /\ calls' # calls) =>
            ~MadeIn(calls', "init_display")]_vars
    /\ [][(/\ FocusStep("INIT_WINDOW")
            /\ MadeIn(calls', "init_display")
            /\ calls'[1].val # 0) =>
            /\ initFailed'
            /\ pc' = "check"
            /\ UNCHANGED <<destroyRequested, animating, state>>]_vars
    /\ []((pc = "check" /\ destroyRequested = 0) => ENABLED CheckDestroy)
    /\ [][(pc = "check" /\ destroyRequested = 0 /\ pc' # pc) => pc' = "poll"]_vars

\* C19 witness: an INIT_WINDOW whose init_display call succeeds after an
\* earlier call of this run has failed
C19_Witness ==
    /\ last = "INIT_WINDOW"
    /\ initFailed
    /\ window
    /\ Len(calls) = 2
    /\ calls[1].fn = "init_display"
    /\ calls[1].val = 0
    /\ context = "ctx"

\* a destroy request is in the command pipe, not yet read
DestroySignalled == \E i \in 1..Len(cmdQ) : cmdQ[i] = "DESTROY"

\* C20: android_main returns only with destroyRequested set and only from
\* the destroy check; under fair scheduling, once a destroy request is in
\* the command pipe the loop returns, when it is animating and when it is
\* blocked in the poll with animating 0 and nothing else ready.
C20_LoopTermination ==
    /\ [](pc = "done" => destroyRequested # 0)
    /\ [][(pc # "done" /\ pc' = "done") =>
            (pc = "check" /\ destroyRequested # 0)]_vars
    /\ DestroySignalled ~> pc = "done"
    /\ (DestroySignalled /\ animating # 0) ~> pc = "done"
    /\ (/\ DestroySignalled /\ pc = "poll" /\ animating = 0
        /\ inputPending = 0 /\ sensorBacklog = 0) ~> pc = "done"

\* C20 witness: the loop has returned on a destroy request that reached it
\* while it was animating
C20_Witness ==
    /\ pc = "done"
    /\ destroyRequested # 0
    /\ last = "EXIT"
    /\ animating # 0
    /\ frames > 0

====
